---- MODULE Spec2Model ----
(***************************************************************************)
(* A model of the vastcap Go client (vastcap.go): the task records, their  *)
(* JSON encoding, the two endpoints' requests, and what each method        *)
(* returns for every answer of the network.                                *)
(*                                                                         *)
(* JSON values are tagged records: [t |-> "str", v |-> s], "bool", "num",  *)
(* "obj" (v a function from keys to JSON values) and [t |-> "null"].       *)
(* A Go string built by fmt is a sequence of its pieces.                   *)
(***************************************************************************)
EXTENDS Naturals, FiniteSets, Sequences, TLC

VARIABLES
    client,            \* the *VastCap that New returned
    given,             \* the apiKey that was passed to New
    createTaskURL,     \* package-level var
    getTaskResultURL,  \* package-level var
    gor,               \* each goroutine: idle, or inside a method waiting on Fetch
    last,              \* the method call that returned last, with what it returned
    sent,              \* HTTP requests sent so far
    unsent,            \* method calls so far whose request could not be encoded
    calls              \* method calls started so far

vars == <<client, given, createTaskURL, getTaskResultURL, gor, last, sent, unsent, calls>>

\* ---------------------------------------------------------------- bounds

\* Method calls started in one behaviour.
MaxCalls == 2

\* http.StatusOK
StatusOK == 200

Goroutines == {"g1", "g2"}

Keys == {"key-A", "key-B"}

\* ----------------------------------------------------------- JSON values

JStr(s) == [t |-> "str", v |-> s]

JBool(b) == [t |-> "bool", v |-> b]

JNum(n) == [t |-> "num", v |-> n]

JObj(o) == [t |-> "obj", v |-> o]

JNull == [t |-> "null"]

\* A Go map[string]string: nil, or a (possibly empty) function.
NilMap == [isNil |-> TRUE, kv |-> <<>>]

MakeMap(kv) == [isNil |-> FALSE, kv |-> kv]

\* A float64, in tenths, or NaN (the infinities behave as NaN does here).
Float(tenths) == [nan |-> FALSE, tenths |-> tenths]

NaN == [nan |-> TRUE, tenths |-> 0]

\* A Go pointer: nil, or the address of a value.
NilPtr == [isNil |-> TRUE]

Ptr(x) == [isNil |-> FALSE, val |-> x]

\* ---------------------------------------------------------- struct types

\* One struct field with its json tag.
Field(name, key, omitempty, kind) ==
    [name |-> name, key |-> key, omitempty |-> omitempty, kind |-> kind]

TaskBase ==
    { Field("Type", "type", FALSE, "string"),
      Field("Proxy", "proxy", TRUE, "string"),
      Field("UserAgent", "userAgent", TRUE, "string"),
      Field("WebsiteKey", "websiteKey", FALSE, "string"),
      Field("WebsiteURL", "websiteURL", FALSE, "string") }

HCaptchaTask ==
    TaskBase \cup
    { Field("RqData", "rqdata", TRUE, "string"),
      Field("Invisible", "invisible", TRUE, "bool"),
      Field("Enterprise", "enterprise", TRUE, "bool") }

RecaptchaTask ==
    TaskBase \cup
    { Field("IsInvisible", "isInvisible", TRUE, "bool"),
      Field("MinScore", "minScore", TRUE, "float64"),
      Field("PageAction", "pageAction", TRUE, "string") }

\* The anonymous struct of FunCaptchaTask.Data.
FunCaptchaData ==
    { Field("Blob", "blob", TRUE, "string"),
      Field("CustomCookies", "custom_cookies", TRUE, "map") }

FunCaptchaTask ==
    TaskBase \cup { Field("Data", "data", TRUE, "struct") }

TurnstileTask ==
    TaskBase \cup { Field("Invisible", "invisible", TRUE, "bool") }

\* ------------------------------------------------------- encoding/json

\* encoding/json's test for omitempty: false, 0, a nil pointer, and an empty
\* string or map are empty; a struct value never is.
isEmptyValue(kind, x) ==
    CASE kind = "string" -> x = ""
      [] kind = "bool" -> x = FALSE
      [] kind = "float64" -> ~x.nan /\ x.tenths = 0
      [] kind = "map" -> Cardinality(DOMAIN x.kv) = 0
      [] kind = "ptr" -> x.isNil
      [] kind = "struct" -> FALSE

\* json.Marshal fails on a float64 that is NaN or infinite (UnsupportedValueError);
\* no other field type of the tasks can fail to encode.
Unsupported(fields, v) ==
    \E f \in fields : f.kind = "float64" /\ v[f.name].nan

\* The keys json.Marshal writes for a struct value v of the type `fields`.
MarshalKeys(fields, v) ==
    { f.key : f \in { h \in fields : ~(h.omitempty /\ isEmptyValue(h.kind, v[h.name])) } }

FieldOfKey(fields, k) == CHOOSE f \in fields : f.key = k

MarshalMap(m) ==
    IF m.isNil THEN JNull ELSE JObj([k \in DOMAIN m.kv |-> JStr(m.kv[k])])

\* A field whose Go type is a string, a bool, a float64 or a map.
MarshalScalar(kind, x) ==
    CASE kind = "string" -> JStr(x)
      [] kind = "bool" -> JBool(x)
      [] kind = "float64" -> JNum(x.tenths)
      [] kind = "map" -> MarshalMap(x)

\* json.Marshal of a struct without struct-typed fields.
MarshalFlat(fields, v) ==
    JObj([k \in MarshalKeys(fields, v) |->
            LET f == FieldOfKey(fields, k) IN MarshalScalar(f.kind, v[f.name])])

\* json.Marshal of a task: the embedded TaskBase's fields are promoted, and the
\* only struct-typed field is FunCaptchaTask.Data.
Marshal(fields, v) ==
    JObj([k \in MarshalKeys(fields, v) |->
            LET f == FieldOfKey(fields, k) IN
            IF f.kind = "struct"
            THEN MarshalFlat(FunCaptchaData, v[f.name])
            ELSE MarshalScalar(f.kind, v[f.name])])

\* ----------------------------------------------------------------- errors

\* A nil error.
NoError == [kind |-> "nil"]

\* fmt.Errorf("vastcap error: %s (%s)", ...): an error that is its text only.
Errorf(description, code) ==
    [kind |-> "fmt", msg |-> <<"vastcap error: ", description, " (", code, ")">>]

\* What requests' Fetch returns when the round trip fails, when CheckStatus
\* rejects the response, and when ToJSON cannot decode the body.
ConnectError(url) == [kind |-> "connect", msg |-> <<"Post ", url, ": no response">>]

StatusError(url) ==
    [kind |-> "status", msg |-> <<"response error for ", url, ": unexpected status">>]

DecodeError == [kind |-> "decode", msg |-> <<"json: cannot unmarshal">>]

\* What Fetch returns when BodyJSON cannot encode the body: the request is not
\* built, and nothing is sent.
EncodeError == [kind |-> "encode", msg |-> <<"json: unsupported value: NaN">>]

\* ------------------------------------------------------- json.Unmarshal

\* The value of key k, or the field's zero value when k is absent or null.
Get(obj, k, zero) ==
    IF k \in DOMAIN obj /\ obj[k].t # "null" THEN obj[k].v ELSE zero

\* A pointer field: nil when k is absent or null.
GetPtr(obj, k) ==
    IF k \in DOMAIN obj /\ obj[k].t # "null" THEN Ptr(obj[k].v) ELSE NilPtr

\* Whether some key of obj holds a JSON value of another type than the field's.
Mistyped(obj, types) ==
    \E k \in (DOMAIN obj) \cap (DOMAIN types) : obj[k].t \notin {"null", types[k]}

apiErrorTypes ==
    ("errorId" :> "num") @@ ("errorCode" :> "str") @@ ("errorDescription" :> "str")

apiError(obj) ==
    [ErrorId |-> Get(obj, "errorId", 0),
     ErrorCode |-> Get(obj, "errorCode", ""),
     ErrorDescription |-> Get(obj, "errorDescription", "")]

apiErrorPtr(obj) ==
    IF "error" \in DOMAIN obj /\ obj["error"].t # "null"
    THEN Ptr(apiError(obj["error"].v))
    ELSE NilPtr

taskSolutionTypes ==
    ("gRecaptchaResponse" :> "str") @@ ("hCaptchaResponse" :> "str") @@
    ("turnstileResponse" :> "str") @@ ("text" :> "str") @@
    ("score" :> "num") @@ ("userAgent" :> "str")

\* taskSolution with the tags of two fields exchanged.
taskSolutionSwapped(obj) ==
    [GRecaptchaResponse |-> GetPtr(obj, "hCaptchaResponse"),
     HCaptchaResponse |-> GetPtr(obj, "gRecaptchaResponse"),
     TurnstileResponse |-> GetPtr(obj, "turnstileResponse"),
     Text |-> GetPtr(obj, "text"),
     Score |-> GetPtr(obj, "score"),
     UserAgent |-> GetPtr(obj, "userAgent")]

taskSolution(obj) ==
    [GRecaptchaResponse |-> GetPtr(obj, "gRecaptchaResponse"),
     HCaptchaResponse |-> GetPtr(obj, "hCaptchaResponse"),
     TurnstileResponse |-> GetPtr(obj, "turnstileResponse"),
     Text |-> GetPtr(obj, "text"),
     Score |-> GetPtr(obj, "score"),
     UserAgent |-> GetPtr(obj, "userAgent")]

MistypedError(obj) ==
    /\ "error" \in DOMAIN obj
    /\ obj["error"].t = "obj"
    /\ Mistyped(obj["error"].v, apiErrorTypes)

\* The response struct of the create methods: TaskID and Error.
createRespTypes == ("taskId" :> "str") @@ ("error" :> "obj")

createRespZero == [TaskID |-> "", Error |-> NilPtr]

\* createResp with a json tag that matches no key of the response.
createRespWrongTag(obj) ==
    [TaskID |-> Get(obj, "task_id", ""), Error |-> apiErrorPtr(obj)]

createResp(obj) ==
    [TaskID |-> Get(obj, "taskId", ""), Error |-> apiErrorPtr(obj)]

createRespBad(obj) == Mistyped(obj, createRespTypes) \/ MistypedError(obj)

TaskResultTypes == ("status" :> "str") @@ ("solution" :> "obj") @@ ("error" :> "obj")

\* TaskResult{}
TaskResultZero == [Status |-> "", Solution |-> NilPtr, Error |-> NilPtr]

TaskResult(obj) ==
    [Status |-> Get(obj, "status", ""),
     Solution |-> IF "solution" \in DOMAIN obj /\ obj["solution"].t # "null"
                  THEN Ptr(taskSolution(obj["solution"].v))
                  ELSE NilPtr,
     Error |-> apiErrorPtr(obj)]

TaskResultBad(obj) ==
    \/ Mistyped(obj, TaskResultTypes)
    \/ MistypedError(obj)
    \/ /\ "solution" \in DOMAIN obj
       /\ obj["solution"].t = "obj"
       /\ Mistyped(obj["solution"].v, taskSolutionTypes)

\* ------------------------------------------------------------- requests

\* BodyJSON with the key left out of the body.
BodyJSONNoKey(c, name, payload) ==
    JObj(("clientKey" :> JStr("")) @@ (name :> payload))

\* map[string]interface{}{"clientKey": c.APIKey, name: payload}
BodyJSON(c, name, payload) ==
    JObj(("clientKey" :> JStr(c.APIKey)) @@ (name :> payload))

\* Fetch without CheckStatus(http.StatusOK): the library's default validator
\* lets every 2xx status through to the handler.
FetchErrAny2xx(url, o, bad) ==
    IF o.kind = "unsent" THEN EncodeError
    ELSE IF o.kind = "connect" THEN ConnectError(url)
    ELSE IF o.status \notin {StatusOK, 201} THEN StatusError(url)
    ELSE IF ~o.body.wf THEN DecodeError
    ELSE IF bad THEN DecodeError
    ELSE NoError

\* URL(..).BodyJSON(..).ToJSON(&resp).CheckStatus(http.StatusOK).Fetch(..) on the
\* network's answer o: the body's encoding (on whose failure nothing is sent), the
\* round trip, then the status validator, and only then the handler that decodes
\* the body into resp.
FetchErr(url, o, bad) ==
    IF o.kind = "unsent" THEN EncodeError
    ELSE IF o.kind = "connect" THEN ConnectError(url)
    ELSE IF o.status # StatusOK THEN StatusError(url)
    ELSE IF ~o.body.wf THEN DecodeError
    ELSE IF bad THEN DecodeError
    ELSE NoError

Decoded(o) == o.kind = "http" /\ o.status = StatusOK /\ o.body.wf

\* ------------------------------------------------------------- methods

New(apiKey) == [APIKey |-> apiKey]

\* SetType that sets the discriminator only when the caller left Type empty.
SetTypeKeep(data, type) ==
    IF data.Type = "" THEN [data EXCEPT !.Type = type] ELSE data

SetType(data, type) == [data EXCEPT !.Type = type]

RecaptchaType(v3) == IF v3 THEN "RecaptchaV3Task" ELSE "RecaptchaV2Task"

\* The request each method sends (its URL and JSON body).
HCaptcha(c, data) ==
    [url |-> createTaskURL,
     body |-> BodyJSON(c, "task", Marshal(HCaptchaTask, SetType(data, "HCaptchaTask")))]

Recaptcha(c, data, v3) ==
    [url |-> createTaskURL,
     body |-> BodyJSON(c, "task", Marshal(RecaptchaTask, SetType(data, RecaptchaType(v3))))]

Turnstile(c, data) ==
    [url |-> createTaskURL,
     body |-> BodyJSON(c, "task", Marshal(TurnstileTask, SetType(data, "TurnstileTask")))]

FunCaptcha(c, data) ==
    [url |-> createTaskURL,
     body |-> BodyJSON(c, "task", Marshal(FunCaptchaTask, SetType(data, "FunCaptchaTask")))]

ImageToText(c, data) ==
    [url |-> createTaskURL,
     body |-> BodyJSON(c, "task", Marshal(TaskBase, SetType(data, "ImageToTextTask")))]

GetResult(c, taskID) ==
    [url |-> getTaskResultURL, body |-> BodyJSON(c, "taskId", JStr(taskID))]

\* createTaskReturn that looks at TaskID before it looks at Error.
createTaskReturnIdFirst(url, o) ==
    LET err == FetchErr(url, o, Decoded(o) /\ createRespBad(o.body.obj))
        resp == IF err = NoError THEN createResp(o.body.obj) ELSE createRespZero
    IN  IF err # NoError THEN [taskId |-> "", err |-> err]
        ELSE IF resp.TaskID # "" THEN [taskId |-> resp.TaskID, err |-> NoError]
        ELSE IF ~resp.Error.isNil
        THEN [taskId |-> "",
              err |-> Errorf(resp.Error.val.ErrorDescription, resp.Error.val.ErrorCode)]
        ELSE [taskId |-> resp.TaskID, err |-> NoError]

\* What a create method returns once Fetch has answered o.
createTaskReturn(url, o) ==
    LET err == FetchErr(url, o, Decoded(o) /\ createRespBad(o.body.obj))
        resp == IF err = NoError THEN createResp(o.body.obj) ELSE createRespZero
    IN  IF err # NoError THEN [taskId |-> "", err |-> err]
        ELSE IF ~resp.Error.isNil
        THEN [taskId |-> "",
              err |-> Errorf(resp.Error.val.ErrorDescription, resp.Error.val.ErrorCode)]
        ELSE [taskId |-> resp.TaskID, err |-> NoError]

\* GetResult that returns the apiError itself, errorId included, as the error.
GetResultReturnStructured(url, o) ==
    LET err == FetchErr(url, o, Decoded(o) /\ TaskResultBad(o.body.obj))
        resp == IF err = NoError THEN TaskResult(o.body.obj) ELSE TaskResultZero
    IN  IF err # NoError THEN [result |-> TaskResultZero, err |-> err]
        ELSE IF ~resp.Error.isNil
        THEN [result |-> TaskResultZero,
              err |-> [kind |-> "apiError", errorId |-> resp.Error.val.ErrorId,
                       msg |-> <<"vastcap error: ", resp.Error.val.ErrorDescription,
                                 " (", resp.Error.val.ErrorCode, ")">>]]
        ELSE [result |-> resp, err |-> NoError]

\* GetResult that returns the decoded TaskResult beside the error.
GetResultReturnKeepsResp(url, o) ==
    LET err == FetchErr(url, o, Decoded(o) /\ TaskResultBad(o.body.obj))
        resp == IF err = NoError THEN TaskResult(o.body.obj) ELSE TaskResultZero
    IN  IF err # NoError THEN [result |-> TaskResultZero, err |-> err]
        ELSE IF ~resp.Error.isNil
        THEN [result |-> resp,
              err |-> Errorf(resp.Error.val.ErrorDescription, resp.Error.val.ErrorCode)]
        ELSE [result |-> resp, err |-> NoError]

\* What GetResult returns once Fetch has answered o.
GetResultReturn(url, o) ==
    LET err == FetchErr(url, o, Decoded(o) /\ TaskResultBad(o.body.obj))
        resp == IF err = NoError THEN TaskResult(o.body.obj) ELSE TaskResultZero
    IN  IF err # NoError THEN [result |-> TaskResultZero, err |-> err]
        ELSE IF ~resp.Error.isNil
        THEN [result |-> TaskResultZero,
              err |-> Errorf(resp.Error.val.ErrorDescription, resp.Error.val.ErrorCode)]
        ELSE [result |-> resp, err |-> NoError]

\* --------------------------------------------------------------- inputs

\* What a caller may have left in TaskBase.Type.
TypeIn == {"", "HCaptchaTask"}

AllTaskBase ==
    [Type : TypeIn,
     Proxy : {"", "user:pw@10.0.0.1:8080"},
     UserAgent : {"", "Mozilla/5.0"},
     WebsiteKey : {"", "sitekey"},
     WebsiteURL : {"https://example.com"}]

AllHCaptchaTask ==
    { b @@ x : b \in AllTaskBase,
               x \in [RqData : {"", "rq"}, Invisible : BOOLEAN, Enterprise : BOOLEAN] }

\* MinScore: 0 (the zero value), 0.7 and NaN.
AllRecaptchaTask ==
    { b @@ x : b \in AllTaskBase,
               x \in [IsInvisible : BOOLEAN, MinScore : {Float(0), Float(7), NaN},
                      PageAction : {"", "login"}] }

AllTurnstileTask == { b @@ x : b \in AllTaskBase, x \in [Invisible : BOOLEAN] }

AllFunCaptchaData ==
    [Blob : {"", "blob"},
     CustomCookies : {NilMap, MakeMap(<<>>), MakeMap("sid" :> "1")}]

AllFunCaptchaTask ==
    { b @@ x : b \in AllTaskBase, x \in [Data : AllFunCaptchaData] }

TaskIDs == {"abc123", ""}

\* The few tasks the concurrent specification calls the methods with: the zero
\* value and a filled one of each kind.
ZeroBase ==
    [Type |-> "", Proxy |-> "", UserAgent |-> "", WebsiteKey |-> "", WebsiteURL |-> ""]

FilledBase ==
    [Type |-> "HCaptchaTask", Proxy |-> "user:pw@10.0.0.1:8080", UserAgent |-> "Mozilla/5.0",
     WebsiteKey |-> "sitekey", WebsiteURL |-> "https://example.com"]

SomeHCaptchaTask ==
    { FilledBase @@ [RqData |-> "rq", Invisible |-> TRUE, Enterprise |-> FALSE] }

SomeRecaptchaTask ==
    { FilledBase @@ [IsInvisible |-> FALSE, MinScore |-> Float(7), PageAction |-> "login"],
      ZeroBase @@ [IsInvisible |-> FALSE, MinScore |-> NaN, PageAction |-> ""] }

SomeTurnstileTask == { ZeroBase @@ [Invisible |-> FALSE] }

SomeFunCaptchaTask == { ZeroBase @@ [Data |-> [Blob |-> "", CustomCookies |-> NilMap]] }

SomeTaskBase == { FilledBase }

\* ------------------------------------------------------ network answers

Body(obj) == [wf |-> TRUE, obj |-> obj]

\* A body that is not JSON.
Garbage == [wf |-> FALSE]

Http(status, body) == [kind |-> "http", status |-> status, body |-> body]

\* The round trip failed: no response at all.
NoResponse == [kind |-> "connect"]

\* No request was sent.
NotSent == [kind |-> "unsent"]

ErrorObj(id, code, description) ==
    JObj(("errorId" :> JNum(id)) @@ ("errorCode" :> JStr(code)) @@
         ("errorDescription" :> JStr(description)))

\* The first two differ in errorId alone.
ErrorObjs ==
    { ErrorObj(1, "KEY_INVALID", "bad key"),
      ErrorObj(2, "KEY_INVALID", "bad key"),
      ErrorObj(3, "ERROR_TASK", "task failed") }

\* A set of one-key objects {key: v}, v in values, with the empty object for
\* "key absent".
Opt(key, values) == { <<>> } \cup { key :> v : v \in values }

CreateObjs ==
    { a @@ b : a \in Opt("taskId", {JStr("abc123"), JStr("t-2"), JNum(7)}),
               b \in Opt("error", {JNull} \cup ErrorObjs) }

SolutionObjs ==
    { JNull,
      JObj("hCaptchaResponse" :> JStr("tok")),
      JObj(("gRecaptchaResponse" :> JStr("tok")) @@ ("score" :> JNum(9)) @@
           ("userAgent" :> JStr("Mozilla/5.0")) @@ ("text" :> JStr("xk4p")) @@
           ("turnstileResponse" :> JNull)) }

ResultObjs ==
    { a @@ b @@ c :
        a \in Opt("status", {JStr("processing"), JStr("ready"), JStr("failed")}),
        b \in Opt("solution", SolutionObjs),
        c \in Opt("error", {JNull} \cup ErrorObjs) }
    \cup { "status" :> JNum(1) }

\* Statuses other than http.StatusOK.
OtherStatuses == {201, 500}

\* Bodies sent with a status other than 200.
OtherBodies ==
    { Garbage,
      Body("taskId" :> JStr("abc123")),
      Body(("status" :> JStr("ready")) @@ ("solution" :> JObj("hCaptchaResponse" :> JStr("tok")))),
      Body("error" :> ErrorObj(1, "KEY_INVALID", "bad key")) }

Answers(objs) ==
    { NoResponse }
    \cup { Http(StatusOK, b) : b \in { Garbage } \cup { Body(x) : x \in objs } }
    \cup { Http(st, b) : st \in OtherStatuses, b \in OtherBodies }

\* Every answer the network may give to a request of `method`.
AnswersTo(method) ==
    IF method = "GetResult" THEN Answers(ResultObjs) ELSE Answers(CreateObjs)

\* The two answers of the specification of the requests.
FewAnswers == { NoResponse, Http(StatusOK, Body("taskId" :> JStr("abc123"))) }

\* -------------------------------------------------------------- actions

Idle == [pc |-> "idle"]

NoCall == [set |-> FALSE]

Init ==
    /\ given \in Keys
    /\ client = New(given)
    /\ createTaskURL = "https://captcha.vast.sh/api/solver/createTask"
    /\ getTaskResultURL = "https://captcha.vast.sh/api/solver/getTaskResult"
    /\ gor = [g \in Goroutines |-> Idle]
    /\ last = NoCall
    /\ sent = 0
    /\ unsent = 0
    /\ calls = 0

\* What the method returns on the answer o to its request to url.
MethodReturn(method, url, o) ==
    IF method = "GetResult" THEN GetResultReturn(url, o) ELSE createTaskReturn(url, o)

\* A call without its task value: the method, and GetResult's task id.
Brief(call) ==
    IF call.method = "GetResult" THEN call ELSE [method |-> call.method]

\* Goroutine g enters a method: the method builds its request, which Fetch sends,
\* and g blocks until the answer.
Start(g, call, req) ==
    /\ gor[g].pc = "idle"
    /\ calls < MaxCalls
    /\ gor' = [gor EXCEPT ![g] = [pc |-> "waiting", call |-> call, req |-> req, nreq |-> 1]]
    /\ sent' = sent + 1
    /\ calls' = calls + 1
    /\ UNCHANGED <<client, given, createTaskURL, getTaskResultURL, last, unsent>>

\* Goroutine g enters a method whose body json.Marshal cannot encode: Fetch
\* returns the encoding error at once, and so does the method.
StartUnsent(g, call, req) ==
    /\ gor[g].pc = "idle"
    /\ calls < MaxCalls
    /\ last' = [set |-> TRUE, call |-> Brief(call), url |-> req.url, nreq |-> 0,
                answer |-> NotSent, ret |-> MethodReturn(call.method, req.url, NotSent)]
    /\ unsent' = unsent + 1
    /\ calls' = calls + 1
    /\ UNCHANGED <<client, given, createTaskURL, getTaskResultURL, gor, sent>>

HCaptchaCall(g, tasks) ==
    \E data \in tasks :
        Start(g, [method |-> "HCaptcha", data |-> data], HCaptcha(client, data))

RecaptchaCall(g, tasks) ==
    \E data \in tasks, v3 \in BOOLEAN :
        IF Unsupported(RecaptchaTask, data)
        THEN StartUnsent(g, [method |-> "Recaptcha", data |-> data, v3 |-> v3],
                         [url |-> createTaskURL])
        ELSE Start(g, [method |-> "Recaptcha", data |-> data, v3 |-> v3],
                   Recaptcha(client, data, v3))

TurnstileCall(g, tasks) ==
    \E data \in tasks :
        Start(g, [method |-> "Turnstile", data |-> data], Turnstile(client, data))

FunCaptchaCall(g, tasks) ==
    \E data \in tasks :
        Start(g, [method |-> "FunCaptcha", data |-> data], FunCaptcha(client, data))

ImageToTextCall(g, tasks) ==
    \E data \in tasks :
        Start(g, [method |-> "ImageToText", data |-> data], ImageToText(client, data))

GetResultCall(g) ==
    \E taskID \in TaskIDs :
        Start(g, [method |-> "GetResult", taskID |-> taskID], GetResult(client, taskID))

\* Return with a retry: a failed Fetch is tried once more.
ReturnRetry(g, o) ==
    /\ gor[g].pc = "waiting"
    /\ LET w == gor[g]
           ret == MethodReturn(w.call.method, w.req.url, o)
       IN  IF ret.err # NoError /\ w.nreq < 2
           THEN /\ gor' = [gor EXCEPT ![g].nreq = w.nreq + 1]
                /\ sent' = sent + 1
                /\ UNCHANGED last
           ELSE /\ last' = [set |-> TRUE, call |-> Brief(w.call), url |-> w.req.url,
                            nreq |-> w.nreq, answer |-> o, ret |-> ret]
                /\ gor' = [gor EXCEPT ![g] = Idle]
                /\ UNCHANGED sent
    /\ UNCHANGED <<client, given, createTaskURL, getTaskResultURL, unsent, calls>>

\* Fetch answers o to goroutine g, and the method g is in returns.
Return(g, o) ==
    /\ gor[g].pc = "waiting"
    /\ LET w == gor[g]
           ret == MethodReturn(w.call.method, w.req.url, o)
       IN  last' = [set |-> TRUE, call |-> Brief(w.call), url |-> w.req.url,
                    nreq |-> w.nreq, answer |-> o, ret |-> ret]
    /\ gor' = [gor EXCEPT ![g] = Idle]
    /\ UNCHANGED <<client, given, createTaskURL, getTaskResultURL, sent, unsent, calls>>

Answer(g) ==
    /\ gor[g].pc = "waiting"
    /\ \E o \in AnswersTo(gor[g].call.method) : Return(g, o)

\* Concurrent calls on one client, with every answer of the network.
Next ==
    \E g \in Goroutines :
        \/ HCaptchaCall(g, SomeHCaptchaTask)
        \/ RecaptchaCall(g, SomeRecaptchaTask)
        \/ TurnstileCall(g, SomeTurnstileTask)
        \/ FunCaptchaCall(g, SomeFunCaptchaTask)
        \/ ImageToTextCall(g, SomeTaskBase)
        \/ GetResultCall(g)
        \/ Answer(g)

Spec == Init /\ [][Next]_vars

AnswerFew(g) == \E o \in FewAnswers : Return(g, o)

\* One goroutine calling the methods with every task value.
NextRequests ==
    \/ HCaptchaCall("g1", AllHCaptchaTask)
    \/ RecaptchaCall("g1", AllRecaptchaTask)
    \/ TurnstileCall("g1", AllTurnstileTask)
    \/ FunCaptchaCall("g1", AllFunCaptchaTask)
    \/ ImageToTextCall("g1", AllTaskBase)
    \/ GetResultCall("g1")
    \/ AnswerFew("g1")

SpecRequests == Init /\ [][NextRequests]_vars

\* ------------------------------------------------------------------ C1

Waiting(g) == gor[g].pc = "waiting"

CreateMethods == {"HCaptcha", "Recaptcha", "Turnstile", "FunCaptcha", "ImageToText"}

InCreate(g) == Waiting(g) /\ gor[g].call.method \in CreateMethods

\* The task object of the request goroutine g has sent.
TaskOf(g) == gor[g].req.body.v["task"].v

\* The discriminator the interface documents for each method.
Discriminator(call) ==
    CASE call.method = "HCaptcha" -> "HCaptchaTask"
      [] call.method = "Recaptcha" /\ ~call.v3 -> "RecaptchaV2Task"
      [] call.method = "Recaptcha" /\ call.v3 -> "RecaptchaV3Task"
      [] call.method = "Turnstile" -> "TurnstileTask"
      [] call.method = "FunCaptcha" -> "FunCaptchaTask"
      [] call.method = "ImageToText" -> "ImageToTextTask"

\* C1: whatever task value a create method is called with, Type set by the caller
\* or not, the "type" of the task object in the request is the method's own
\* discriminator (for Recaptcha, the one its v3 flag selects).
C1_TypeIsDiscriminator ==
    \A g \in Goroutines :
        InCreate(g) =>
            /\ "type" \in DOMAIN TaskOf(g)
            /\ TaskOf(g)["type"] = JStr(Discriminator(gor[g].call))

\* Recaptcha(data, true) on a task whose Type the caller set to "HCaptchaTask"
\* has sent "RecaptchaV3Task".
C1_Witness ==
    \E g \in Goroutines :
        /\ InCreate(g)
        /\ gor[g].call.method = "Recaptcha"
        /\ gor[g].call.v3
        /\ gor[g].call.data.Type = "HCaptchaTask"
        /\ TaskOf(g)["type"] = JStr("RecaptchaV3Task")

\* ------------------------------------------------------------------ C2

\* The optional fields of the task kinds, by their Go names, with the JSON key
\* each is sent under.
OptionalKeys ==
    ("Proxy" :> "proxy") @@ ("UserAgent" :> "userAgent") @@ ("RqData" :> "rqdata") @@
    ("Invisible" :> "invisible") @@ ("Enterprise" :> "enterprise") @@
    ("IsInvisible" :> "isInvisible") @@ ("MinScore" :> "minScore") @@
    ("PageAction" :> "pageAction") @@ ("Data" :> "data")

\* The zero value a Go field has when the caller did not set it.
Unset(name, x) ==
    CASE name \in {"Proxy", "UserAgent", "RqData", "PageAction", "Blob"} -> x = ""
      [] name \in {"Invisible", "Enterprise", "IsInvisible"} -> x = FALSE
      [] name = "MinScore" -> x = [nan |-> FALSE, tenths |-> 0]
      [] name = "CustomCookies" -> x.isNil
      [] name = "Data" -> x.Blob = "" /\ x.CustomCookies.isNil

\* The optional fields of the task value except FunCaptchaTask.Data.
C2_ScalarsOmitted(g) ==
    \A name \in ((DOMAIN gor[g].call.data) \cap (DOMAIN OptionalKeys)) \ {"Data"} :
        Unset(name, gor[g].call.data[name]) => OptionalKeys[name] \notin DOMAIN TaskOf(g)

\* blob and custom_cookies inside the data object, when that object is sent.
C2_DataFieldsOmitted(g) ==
    ("Data" \in DOMAIN gor[g].call.data /\ "data" \in DOMAIN TaskOf(g)) =>
        /\ Unset("Blob", gor[g].call.data.Data.Blob) =>
               "blob" \notin DOMAIN TaskOf(g)["data"].v
        /\ Unset("CustomCookies", gor[g].call.data.Data.CustomCookies) =>
               "custom_cookies" \notin DOMAIN TaskOf(g)["data"].v

\* The data object itself.
C2_DataOmitted(g) ==
    ("Data" \in DOMAIN gor[g].call.data /\ Unset("Data", gor[g].call.data.Data)) =>
        "data" \notin DOMAIN TaskOf(g)

\* C2: every optional field the caller left unset (proxy, userAgent, rqData,
\* invisible, enterprise, isInvisible, minScore, pageAction, the FunCaptcha data
\* object, its blob and its customCookies) has no key in the serialized task.
C2_UnsetOptionalAbsent ==
    \A g \in Goroutines :
        InCreate(g) =>
            /\ C2_ScalarsOmitted(g)
            /\ C2_DataFieldsOmitted(g)
            /\ C2_DataOmitted(g)

\* What does hold of the code: the claim for every optional field but the data
\* object, which is sent as {} when unset.
C2_AllButDataAbsent ==
    \A g \in Goroutines :
        InCreate(g) =>
            /\ C2_ScalarsOmitted(g)
            /\ C2_DataFieldsOmitted(g)
            /\ "Data" \in DOMAIN gor[g].call.data =>
                   /\ "data" \in DOMAIN TaskOf(g)
                   /\ Unset("Data", gor[g].call.data.Data) =>
                          TaskOf(g)["data"] = JObj(<<>>)

\* ---------------------------------------------- the call that returned

IsCreate == last.set /\ last.call.method \in CreateMethods

IsGetResult == last.set /\ last.call.method = "GetResult"

\* The answer was HTTP 200 with a JSON body of the fields' types.
Got200 ==
    /\ last.set
    /\ last.answer.kind = "http"
    /\ last.answer.status = StatusOK
    /\ last.answer.body.wf
    /\ ~(IF IsGetResult THEN TaskResultBad(last.answer.body.obj)
                        ELSE createRespBad(last.answer.body.obj))

BodyObj == last.answer.body.obj

\* The body holds an error object (not null).
HasErrorObj == "error" \in DOMAIN BodyObj /\ BodyObj["error"].t = "obj"

\* A field of the body's error object, "" when the object lacks it.
ErrorField(key) ==
    IF key \in DOMAIN BodyObj["error"].v THEN BodyObj["error"].v[key].v ELSE ""

Contains(msg, piece) == \E i \in DOMAIN msg : msg[i] = piece

\* The value a method returns beside an error: "" or TaskResult{}.
ZeroValueReturned ==
    IF IsGetResult
    THEN last.ret.result = [Status |-> "", Solution |-> [isNil |-> TRUE], Error |-> [isNil |-> TRUE]]
    ELSE last.ret.taskId = ""

\* ------------------------------------------------------------------ C3

\* C3: a 200 answer whose body holds a non-null error object makes every method
\* return a non-nil error with the body's errorDescription and errorCode in its
\* message, whatever else the body holds.
C3_ApiErrorReported ==
    (Got200 /\ HasErrorObj) =>
        /\ last.ret.err # [kind |-> "nil"]
        /\ last.ret.err.msg[1] = "vastcap error: "
        /\ Contains(last.ret.err.msg, ErrorField("errorDescription"))
        /\ Contains(last.ret.err.msg, ErrorField("errorCode"))
        /\ ZeroValueReturned

\* A create method got 200 with both a taskId and an error object.
C3_Witness ==
    /\ IsCreate
    /\ Got200
    /\ HasErrorObj
    /\ "taskId" \in DOMAIN BodyObj
    /\ BodyObj["taskId"] = JStr("abc123")
    /\ Contains(last.ret.err.msg, "task failed")
    /\ Contains(last.ret.err.msg, "ERROR_TASK")

\* ------------------------------------------------------------------ C4

\* C4: under any status but 200 every method returns the status error of the
\* transport, never a result and never a "vastcap error", whatever the body.
C4_StatusDecidesFirst ==
    (last.set /\ last.answer.kind = "http" /\ last.answer.status # 200) =>
        /\ last.ret.err.kind = "status"
        /\ last.ret.err.msg[1] # "vastcap error: "
        /\ ZeroValueReturned

\* A 201 with a well-formed taskId, answered to a create method.
C4_Witness ==
    /\ IsCreate
    /\ last.answer.kind = "http"
    /\ last.answer.status = 201
    /\ last.answer.body = Body("taskId" :> JStr("abc123"))
    /\ last.ret.err.kind = "status"

\* ------------------------------------------------------------------ C5

NilError == [kind |-> "nil"]

\* C5 as stated: the error returned for an API-reported error is a structured
\* error in which the caller reads the errorId the server sent.
C5_ErrorIdPreserved ==
    (Got200 /\ HasErrorObj) =>
        /\ "errorId" \in DOMAIN last.ret.err
        /\ last.ret.err.errorId = ErrorField("errorId")

\* The answer o with the errorId of its error object replaced by id.
WithErrorId(o, id) ==
    [o EXCEPT !.body.obj =
        ("error" :> JObj(("errorId" :> JNum(id)) @@ o.body.obj["error"].v)) @@ o.body.obj]

\* C5 amended: the error returned for an API-reported error is the text
\* "vastcap error: <errorDescription> (<errorCode>)" and nothing else; the errorId
\* is not in it, and any other errorId in the response gives the same return.
C5_ErrorIsTextOnly ==
    (Got200 /\ HasErrorObj) =>
        /\ DOMAIN last.ret.err = {"kind", "msg"}
        /\ last.ret.err =
               [kind |-> "fmt",
                msg |-> <<"vastcap error: ", ErrorField("errorDescription"),
                          " (", ErrorField("errorCode"), ")">>]
        /\ \A id \in {1, 2, 3} :
               MethodReturn(last.call.method, last.url, WithErrorId(last.answer, id)) = last.ret

\* GetResult was answered an error object with errorId 2.
C5_Witness ==
    /\ IsGetResult
    /\ Got200
    /\ HasErrorObj
    /\ BodyObj["error"] = ErrorObj(2, "KEY_INVALID", "bad key")
    /\ last.ret.err.msg = <<"vastcap error: ", "bad key", " (", "KEY_INVALID", ")">>

\* ------------------------------------------------------------------ C6

\* C6 as stated: every method call sends exactly one request, whatever the
\* outcome: after n calls n requests have been sent, a call in flight has sent
\* one, and the call that returned had sent one.
C6_OneRequestPerCall ==
    /\ sent = calls
    /\ \A g \in Goroutines : Waiting(g) => gor[g].nreq = 1
    /\ last.set => last.nreq = 1

\* C6 amended: every method call sends at most one request and returns: exactly
\* one whatever the network answers (no retry, no cache, no polling), and none
\* when its body cannot be encoded (Recaptcha with a NaN MinScore), which the
\* call reports as its error; after n calls, n less the calls of that kind
\* requests have been sent.
C6_AtMostOneRequestPerCall ==
    /\ sent + unsent = calls
    /\ \A g \in Goroutines : Waiting(g) => gor[g].nreq = 1
    /\ last.set => last.nreq = (IF last.ret.err.kind = "encode" THEN 0 ELSE 1)
    /\ last.set => (last.ret.err.kind = "encode" <=> last.answer.kind = "unsent")
    /\ (last.set /\ last.nreq = 0) => last.call.method = "Recaptcha"

\* GetResult("abc123") returned "ready", and a second GetResult("abc123") has
\* sent a request of its own.
C6_Witness ==
    /\ IsGetResult
    /\ last.call.taskID = "abc123"
    /\ last.ret.err = NilError
    /\ last.ret.result.Status = "ready"
    /\ \E g \in Goroutines :
           /\ Waiting(g)
           /\ gor[g].call = [method |-> "GetResult", taskID |-> "abc123"]
    /\ calls = 2
    /\ sent = 2

\* ------------------------------------------------------------------ C7

\* The key every request in flight carries is the one New was given, the client
\* and the package's URLs are as constructed, and what a call returned is the
\* method's function of its own URL and its own answer.
C7_State ==
    /\ client = [APIKey |-> given]
    /\ createTaskURL = "https://captcha.vast.sh/api/solver/createTask"
    /\ getTaskResultURL = "https://captcha.vast.sh/api/solver/getTaskResult"
    /\ \A g \in Goroutines :
           Waiting(g) => gor[g].req.body.v["clientKey"] = JStr(given)
    /\ last.set => last.ret = MethodReturn(last.call.method, last.url, last.answer)

\* No step writes the client or a package-level variable, and no step of one
\* goroutine changes the call another goroutine is in.
C7_Step ==
    /\ client' = client
    /\ createTaskURL' = createTaskURL
    /\ getTaskResultURL' = getTaskResultURL
    /\ \A g \in Goroutines :
           (gor[g].pc = "waiting" /\ gor'[g].pc = "waiting") => gor'[g] = gor[g]
    /\ Cardinality({g \in Goroutines : gor'[g] # gor[g]}) <= 1

\* C7: across every interleaving of calls on one client, the client's APIKey and
\* the package-level variables are never written, every request carries the key
\* given to New, and a call's outcome depends on its own request and answer only.
C7_NoSharedMutableState == []C7_State /\ [][C7_Step]_vars

\* A create call and a GetResult call in flight at once on the client of key-B.
C7_Witness ==
    /\ given = "key-B"
    /\ Waiting("g1")
    /\ Waiting("g2")
    /\ gor["g1"].call.method = "FunCaptcha"
    /\ gor["g2"].call.method = "GetResult"
    /\ gor["g1"].req.body.v["clientKey"] = JStr("key-B")
    /\ gor["g2"].req.body.v["clientKey"] = JStr("key-B")

\* ------------------------------------------------------------------ C8

\* The fields of taskSolution with their JSON keys.
SolutionFields ==
    { <<"GRecaptchaResponse", "gRecaptchaResponse">>,
      <<"HCaptchaResponse", "hCaptchaResponse">>,
      <<"TurnstileResponse", "turnstileResponse">>,
      <<"Text", "text">>,
      <<"Score", "score">>,
      <<"UserAgent", "userAgent">> }

Present(obj, key) == key \in DOMAIN obj /\ obj[key].t # "null"

\* C8: on a 200 answer without error object GetResult returns a nil error and
\* the body as it is: its status, no Error, a Solution only when the body has
\* one, and in it each field the body gives, with its value, and no other.
C8_ResultReflectsBody ==
    (IsGetResult /\ Got200 /\ ~HasErrorObj) =>
        /\ last.ret.err = NilError
        /\ last.ret.result.Error = [isNil |-> TRUE]
        /\ last.ret.result.Status =
               (IF Present(BodyObj, "status") THEN BodyObj["status"].v ELSE "")
        /\ ~Present(BodyObj, "solution") => last.ret.result.Solution = [isNil |-> TRUE]
        /\ Present(BodyObj, "solution") =>
               /\ ~last.ret.result.Solution.isNil
               /\ \A f \in SolutionFields :
                      last.ret.result.Solution.val[f[1]] =
                          (IF Present(BodyObj["solution"].v, f[2])
                           THEN [isNil |-> FALSE, val |-> BodyObj["solution"].v[f[2]].v]
                           ELSE [isNil |-> TRUE])

\* {"status": "ready", "solution": {gRecaptchaResponse, score, ...}} came back as
\* a Solution with those fields and no hCaptchaResponse.
C8_Witness ==
    /\ IsGetResult
    /\ Got200
    /\ ~HasErrorObj
    /\ last.ret.result.Status = "ready"
    /\ ~last.ret.result.Solution.isNil
    /\ last.ret.result.Solution.val.GRecaptchaResponse = [isNil |-> FALSE, val |-> "tok"]
    /\ last.ret.result.Solution.val.Score = [isNil |-> FALSE, val |-> 9]
    /\ last.ret.result.Solution.val.HCaptchaResponse = [isNil |-> TRUE]

\* ------------------------------------------------------------------ C9

\* The body is {"taskId": t}, t a string, without an error object.
TaskIdIssued == Got200 /\ ~HasErrorObj /\ Present(BodyObj, "taskId")

\* C9 as stated: a 200 body with a taskId t and no error object makes a create
\* method return t and a nil error, and a create method returns a nil error in
\* that case only.
C9_NilErrorOnlyWithTaskId ==
    IsCreate =>
        /\ TaskIdIssued => (last.ret.taskId = BodyObj["taskId"].v /\ last.ret.err = NilError)
        /\ last.ret.err = NilError => TaskIdIssued

\* C9 amended: a create method returns a nil error exactly when the answer is
\* 200 with a decodable body without error object; it then returns the body's
\* taskId, and the empty string when the body has none.
C9_NilErrorIffNoErrorObj ==
    IsCreate =>
        /\ (last.ret.err = NilError) <=> (Got200 /\ ~HasErrorObj)
        /\ last.ret.err = NilError =>
               last.ret.taskId =
                   (IF Present(BodyObj, "taskId") THEN BodyObj["taskId"].v ELSE "")

\* HCaptcha was answered {"taskId": "abc123"} and returned "abc123", nil.
C9_Witness ==
    /\ IsCreate
    /\ last.call.method = "HCaptcha"
    /\ Got200
    /\ BodyObj = ("taskId" :> JStr("abc123"))
    /\ last.ret = [taskId |-> "abc123", err |-> NilError]

\* ----------------------------------------------------------------- C10

====
